---- MODULE Spec2Model ----
\* cachego: one cache contract over three backends (go-cache in memory,
\* Badger on disk with an emulated TTL, Redis over the network) and the
\* dispatcher CacheInit that selects one of them.
\*
\* Time is counted in ticks since the Unix epoch, TicksPerSecond ticks to a
\* second, so that time.Time.Unix() (whole seconds) and the sub-second part of
\* a time.Time are both visible.  Byte sequences are sequences of 0..255.
EXTENDS Integers, Sequences, FiniteSets, TLC

\* ------------------------------------------------------------------ bounds
MaxTime == 3
MaxInstances == 2

\* ------------------------------------------------------------------ time
TicksPerSecond == 2

\* time.Time.Unix(): the whole seconds elapsed since the epoch.
Unix(t) == t \div TicksPerSecond

\* The zero time.Time (`var ttl time.Time`): year 1, before every clock value.
ZeroTime == 0 - TicksPerSecond

\* time.Time.Sub
Sub(t, u) == t - u

\* ------------------------------------------------------------------ values
Nil == "nil"
NoError == "nil"
ErrKeyNotFound == "ErrKeyNotFound"

Keys == {"a"}

\* The payloads callers pass to Set and ExtendTTL: the 0-length payload, "v"
\* and "w1".
Contents == {<< >>, <<118>>, <<119, 49>>}

\* ------------------------------------------------------------------ encoding/json
\* The base64 alphabet of encoding/base64.StdEncoding, as ASCII codes.
B64Char(i) ==
    IF i < 26 THEN 65 + i
    ELSE IF i < 52 THEN 97 + (i - 26)
    ELSE IF i < 62 THEN 48 + (i - 52)
    ELSE IF i = 62 THEN 43 ELSE 47

RECURSIVE Base64(_)
Base64(b) ==
    IF Len(b) = 0 THEN << >>
    ELSE IF Len(b) = 1 THEN
        << B64Char(b[1] \div 4), B64Char((b[1] % 4) * 16), 61, 61 >>
    ELSE IF Len(b) = 2 THEN
        << B64Char(b[1] \div 4), B64Char((b[1] % 4) * 16 + b[2] \div 16),
           B64Char((b[2] % 16) * 4), 61 >>
    ELSE
        << B64Char(b[1] \div 4), B64Char((b[1] % 4) * 16 + b[2] \div 16),
           B64Char((b[2] % 16) * 4 + b[3] \div 64), B64Char(b[3] % 64) >>
        \o Base64(SubSeq(b, 4, Len(b)))

\* json.Marshal of a []byte held in an interface{}: a quoted base64 string.
JsonMarshalBytes(b) == <<34>> \o Base64(b) \o <<34>>

\* json.Marshal / json.Unmarshal of a time.Time: RFC 3339 with nanoseconds,
\* which keeps the wall-clock instant to the tick.
JsonMarshalTime(t) == [rfc3339 |-> t]
JsonUnmarshalTime(v) == v.rfc3339

\* ------------------------------------------------------------------ config
Types == {"", "memory", "file", "badger", "redis", "bogus"}
Expirations == {"", "500ms", "1s", "soon"}
DefaultPath == "/tmp/cachego"
Paths == {"", "/nonexistent/cachego"}
OpenablePaths == {DefaultPath}

\* var DefaultConfig = CacheGoConfig{...}
DefaultConfigValue ==
    [Type |-> "memory", Expiration |-> "10m", RedisHost |-> "127.0.0.1:6379",
     RedisDB |-> 0, Path |-> DefaultPath, TTL |-> 0]

\* What callers pass to CacheInit: any field may be left at its zero value.
CacheConfigs ==
    [Type : Types, Expiration : Expirations, RedisHost : {""}, RedisDB : {0},
     Path : Paths, TTL : {0}]

\* mergo.Merge(&dst, src, mergo.WithOverride): every non-zero field of src
\* replaces the field of dst; zero-valued fields of src leave dst alone.
Merge(dst, src) ==
    [Type       |-> IF src.Type # "" THEN src.Type ELSE dst.Type,
     Expiration |-> IF src.Expiration # "" THEN src.Expiration ELSE dst.Expiration,
     RedisHost  |-> IF src.RedisHost # "" THEN src.RedisHost ELSE dst.RedisHost,
     RedisDB    |-> IF src.RedisDB # 0 THEN src.RedisDB ELSE dst.RedisDB,
     Path       |-> IF src.Path # "" THEN src.Path ELSE dst.Path,
     TTL        |-> IF src.TTL # 0 THEN src.TTL ELSE dst.TTL]

\* The strings in use that time.ParseDuration accepts.
ValidDurations == {"10m", "1s", "500ms", "0s"}

\* time.ParseDuration on the duration strings in use.
ParseDuration(s) ==
    CASE s = "10m"   -> [d |-> 600 * TicksPerSecond, err |-> NoError]
      [] s = "1s"    -> [d |-> TicksPerSecond, err |-> NoError]
      [] s = "500ms" -> [d |-> TicksPerSecond \div 2, err |-> NoError]
      [] s = "0s"    -> [d |-> 0, err |-> NoError]
      [] OTHER       -> [d |-> 0, err |-> "time: invalid duration"]

\* ------------------------------------------------------------------ state
VARIABLES
    DefaultConfig,  \* config.DefaultConfig, the process-wide merged configuration
    CacheInstance,  \* var CacheInstance CacheInterface: 0 (nil) or an index of heap
    heap,           \* the backend objects constructed so far
    disk,           \* the Badger directory DefaultPath: physical key -> value
    dirLock,        \* whether an open badger.DB holds the directory lock
    redis,          \* the Redis server: key -> [val, exp]
    now,            \* the wall clock, in ticks
    written,        \* <<store, key>> pairs some Set/ExtendTTL was called for
    status,         \* "running", or how the process ended: "fatal", "panic"
    last,           \* the last call made and what it returned
    goroutines,     \* per goroutine: the call it is in and what it holds so far
    latest          \* per key: the entry of the last committed write, Nil if none

vars == << DefaultConfig, CacheInstance, heap, disk, dirLock, redis, now,
           written, status, last, goroutines, latest >>

EmptyMap == [k \in {} |-> 0]

\* Map m with key k bound to v, and with key k removed.
Put(m, k, v) == [x \in DOMAIN m \cup {k} |-> IF x = k THEN v ELSE m[x]]
Del(m, k) == [x \in DOMAIN m \ {k} |-> m[x]]

\* The goroutines that call the same backend at the same time.
Goroutines == {"g1", "g2"}

\* No entry: what latest holds for a key without a committed entry.
NoEntry == [present |-> FALSE, content |-> << >>, ttl |-> 0]

\* A goroutine that is in no call.  t: the time.Now() a Set has taken; snap:
\* the snapshot of the read transaction; seen: the entry last committed when
\* the transaction began; overtaken: a Set committed after that.
Idle ==
    [pc |-> "idle", op |-> "none", key |-> "", item |-> << >>, t |-> 0,
     snap |-> EmptyMap, seen |-> NoEntry, overtaken |-> FALSE,
     content |-> << >>, TTL |-> 0, found |-> FALSE, err |-> NoError]

NoGoroutines == [g \in Goroutines |-> Idle]
NoEntries == [k \in Keys |-> NoEntry]

\* ------------------------------------------------------------------ Badger
\* The two revisions of the Badger backend held by the repository.
BadgerRevs == {"badger.go", "part_001"}

\* A layout that stores the payload under the bare cache key.
ContentKeyBare(cacheKey) == cacheKey

\* fmt.Sprintf("%s_content", cacheKey), fmt.Sprintf("%s_ttl", cacheKey)
ContentKey(cacheKey) == cacheKey \o "_content"
TTLKey(cacheKey) == cacheKey \o "_ttl"

\* A staleness test that never finds an entry stale.
IsStaleNever(ttl, t) == FALSE

\* The staleness test of Get: both times are cut to whole seconds.
IsStale(ttl, t) == Unix(ttl) <= Unix(t)

\* retrieveFromCache with badger.ErrKeyNotFound of the ttl record handed on
\* as an error.
retrieveFromCacheNotFoundIsError(rev, db, cacheKey, fault) ==
    IF fault = "read" THEN
        [Content |-> << >>, TTL |-> ZeroTime, err |-> "storage error"]
    ELSE IF TTLKey(cacheKey) \notin DOMAIN db THEN
        [Content |-> << >>, TTL |-> ZeroTime, err |-> ErrKeyNotFound]
    ELSE [Content |-> IF ContentKey(cacheKey) \in DOMAIN db
                      THEN db[ContentKey(cacheKey)] ELSE << >>,
          TTL |-> JsonUnmarshalTime(db[TTLKey(cacheKey)]), err |-> NoError]

\* retrieveFromCache: [Content, TTL, err].  fault = "read" is a storage error
\* of txn.Get or item.Value other than ErrKeyNotFound.
retrieveFromCache(rev, db, cacheKey, fault) ==
    IF fault = "read" THEN
        [Content |-> << >>, TTL |-> ZeroTime, err |-> "storage error"]
    ELSE IF TTLKey(cacheKey) \notin DOMAIN db THEN
        [Content |-> << >>, TTL |-> ZeroTime, err |-> NoError]
    ELSE LET ttl == JsonUnmarshalTime(db[TTLKey(cacheKey)])
         IN  IF ContentKey(cacheKey) \notin DOMAIN db THEN
                 [Content |-> << >>, TTL |-> ttl,
                  err |-> IF rev = "part_001" THEN ErrKeyNotFound ELSE NoError]
             ELSE
                 [Content |-> db[ContentKey(cacheKey)], TTL |-> ttl, err |-> NoError]

\* delete that removes the content record and leaves the ttl record.
BadgerDeleteContentOnly(db, cacheKey, fault) ==
    IF fault = "delete" THEN [db |-> db, err |-> "storage error"]
    ELSE [db |-> Del(db, ContentKey(cacheKey)), err |-> NoError]

\* delete: both records leave in one transaction; a failing Delete or Commit
\* discards the transaction.
BadgerDelete(db, cacheKey, fault) ==
    IF fault = "delete" THEN [db |-> db, err |-> "storage error"]
    ELSE [db |-> Del(Del(db, ContentKey(cacheKey)), TTLKey(cacheKey)), err |-> NoError]

\* A Get with sliding expiration: a hit moves the expiry of the entry on.
BadgerGetSliding(rev, db, cacheKey, t, fault) ==
    LET r == retrieveFromCache(rev, db, cacheKey, fault)
    IN  IF r.err # NoError THEN
            [db |-> db, content |-> << >>, boxed |-> FALSE, found |-> FALSE,
             err |-> r.err]
        ELSE IF IsStale(r.TTL, t) THEN
            [db |-> BadgerDelete(db, cacheKey, fault).db, content |-> r.Content,
             boxed |-> (rev = "badger.go"), found |-> FALSE, err |-> NoError]
        ELSE
            [db |-> Put(db, TTLKey(cacheKey), JsonMarshalTime(r.TTL + 1)),
             content |-> r.Content, boxed |-> FALSE, found |-> TRUE, err |-> NoError]

\* A Get that hands the error of its reaping delete to the caller.
BadgerGetReturnsDeleteError(rev, db, cacheKey, t, fault) ==
    LET r == retrieveFromCache(rev, db, cacheKey, fault)
        d == BadgerDelete(db, cacheKey, fault)
    IN  IF r.err # NoError THEN
            [db |-> db, content |-> << >>, boxed |-> FALSE, found |-> FALSE,
             err |-> r.err]
        ELSE IF IsStale(r.TTL, t) THEN
            [db |-> d.db, content |-> r.Content, boxed |-> (rev = "badger.go"),
             found |-> FALSE, err |-> d.err]
        ELSE
            [db |-> db, content |-> r.Content, boxed |-> FALSE, found |-> TRUE,
             err |-> NoError]

\* Get: [db, content, boxed, found, err].  boxed: the value handed back is the
\* whole BadgerItem (TTL and Content), not the content alone.
BadgerGet(rev, db, cacheKey, t, fault) ==
    LET r == retrieveFromCache(rev, db, cacheKey, fault)
    IN  IF r.err # NoError THEN
            [db |-> db, content |-> << >>, boxed |-> FALSE, found |-> FALSE,
             err |-> r.err]
        ELSE IF IsStale(r.TTL, t) THEN
            [db |-> BadgerDelete(db, cacheKey, fault).db, content |-> r.Content,
             boxed |-> (rev = "badger.go"), found |-> FALSE, err |-> NoError]
        ELSE
            [db |-> db, content |-> r.Content, boxed |-> FALSE, found |-> TRUE,
             err |-> NoError]

\* The bytes Set stores under <key>_content.
BadgerItemBytes(rev, item) ==
    IF rev = "badger.go" THEN JsonMarshalBytes(item) ELSE item

\* A Set that writes its two records one by one, outside a transaction: what
\* was written before the failing step stays.
BadgerSetStepwise(rev, db, cacheKey, item, t, TTL, fault) ==
    LET itemBytes == IF rev = "badger.go" THEN JsonMarshalBytes(item) ELSE item
        ttlBytes  == JsonMarshalTime(t + TTL)
    IN  IF fault = "marshal_ttl" THEN [db |-> db, err |-> "json error"]
        ELSE IF fault = "stage_content" THEN [db |-> db, err |-> "storage error"]
        ELSE IF fault = "stage_ttl" THEN
            [db |-> Put(db, ContentKey(cacheKey), itemBytes), err |-> "storage error"]
        ELSE
            [db |-> Put(Put(db, ContentKey(cacheKey), itemBytes),
                        TTLKey(cacheKey), ttlBytes),
             err |-> IF fault = "commit" THEN "storage error" ELSE NoError]

\* A Set whose failed Commit has already made the staged records durable.
BadgerSetFailedCommitApplied(rev, db, cacheKey, item, t, TTL, fault) ==
    LET itemBytes == IF rev = "badger.go" THEN JsonMarshalBytes(item) ELSE item
        ttlBytes  == JsonMarshalTime(t + TTL)
    IN  IF fault \in {"marshal_ttl", "stage_content", "stage_ttl"} THEN
            [db |-> db, err |-> "storage error"]
        ELSE
            [db |-> Put(Put(db, ContentKey(cacheKey), itemBytes),
                        TTLKey(cacheKey), ttlBytes),
             err |-> IF fault = "commit" THEN "storage error" ELSE NoError]

\* Set: [db, err].  fault names the step of the write transaction that fails;
\* the deferred txn.Discard() then drops everything staged.
BadgerSet(rev, db, cacheKey, item, t, TTL, fault) ==
    LET itemBytes == BadgerItemBytes(rev, item)
        ttlBytes  == JsonMarshalTime(t + TTL)
    IN  IF fault = "marshal_ttl" THEN [db |-> db, err |-> "json error"]
        ELSE IF fault \in {"stage_content", "stage_ttl", "commit"} THEN
            [db |-> db, err |-> "storage error"]
        ELSE
            [db |-> Put(Put(db, ContentKey(cacheKey), itemBytes),
                        TTLKey(cacheKey), ttlBytes),
             err |-> NoError]

\* A GetItemTTL that treats a ttl that is not ahead of the clock like a
\* missing key.
BadgerGetItemTTLHidesStale(rev, db, cacheKey, t, fault) ==
    IF fault = "read" THEN [dur |-> 0, found |-> FALSE, err |-> "storage error"]
    ELSE IF TTLKey(cacheKey) \notin DOMAIN db THEN
        [dur |-> 0, found |-> FALSE, err |-> NoError]
    ELSE IF JsonUnmarshalTime(db[TTLKey(cacheKey)]) <= t THEN
        [dur |-> 0, found |-> FALSE, err |-> NoError]
    ELSE [dur |-> Sub(JsonUnmarshalTime(db[TTLKey(cacheKey)]), t),
          found |-> TRUE, err |-> NoError]

\* GetItemTTL: [dur, found, err].
BadgerGetItemTTL(rev, db, cacheKey, t, fault) ==
    IF rev = "badger.go" THEN
        IF fault = "read" THEN [dur |-> 0, found |-> FALSE, err |-> "storage error"]
        ELSE IF TTLKey(cacheKey) \notin DOMAIN db THEN
            [dur |-> 0, found |-> FALSE, err |-> NoError]
        ELSE [dur |-> Sub(JsonUnmarshalTime(db[TTLKey(cacheKey)]), t),
              found |-> TRUE, err |-> NoError]
    ELSE
        LET r == retrieveFromCache(rev, db, cacheKey, fault)
        IN  IF r.err # NoError THEN [dur |-> 0, found |-> FALSE, err |-> r.err]
            ELSE [dur |-> Sub(r.TTL, t), found |-> TRUE, err |-> NoError]

\* ExtendTTL: [db, err].  The error of the inner Set is dropped.
BadgerExtendTTL(rev, db, cacheKey, item, t, TTL, fault) ==
    [db |-> BadgerSet(rev, db, cacheKey, item, t, TTL, fault).db, err |-> NoError]

\* ------------------------------------------------------------------ go-cache
\* gocache.New(TTL, TTL) and Cache.Set(k, x, TTL): a duration of 0 is
\* DefaultExpiration, and a default of 0 is stored as NoExpiration (-1); only
\* a positive duration gives the item an expiration, 0 meaning none.
GoCacheExpiration(t, TTL) == IF TTL > 0 THEN t + TTL ELSE 0

\* Item.Expired / the check of Cache.Get: time.Now().UnixNano() > Expiration.
GoCacheExpired(it, t) == it.Expiration > 0 /\ t > it.Expiration

\* GoCache.Get: [content, found, err].
GoCacheGet(items, cacheKey, t) ==
    IF cacheKey \in DOMAIN items /\ ~GoCacheExpired(items[cacheKey], t) THEN
        [content |-> items[cacheKey].Object, found |-> TRUE, err |-> NoError]
    ELSE [content |-> << >>, found |-> FALSE, err |-> NoError]

\* GoCache.Set: the items afterwards.
GoCacheSet(items, cacheKey, item, t, TTL) ==
    Put(items, cacheKey, [Object |-> item, Expiration |-> GoCacheExpiration(t, TTL)])

\* GoCache.GetItemTTL: [dur, found, err]; a missing or unexpiring item has the
\* zero time.Time as its expiration.
GoCacheGetItemTTL(items, cacheKey, t) ==
    IF cacheKey \in DOMAIN items /\ ~GoCacheExpired(items[cacheKey], t) THEN
        [dur |-> IF items[cacheKey].Expiration > 0
                 THEN Sub(items[cacheKey].Expiration, t) ELSE Sub(ZeroTime, t),
         found |-> TRUE, err |-> NoError]
    ELSE [dur |-> Sub(ZeroTime, t), found |-> FALSE, err |-> NoError]

\* GoCache.ExtendTTL: Set, whose result is nil anyway.
GoCacheExtendTTL(items, cacheKey, item, t, TTL) ==
    GoCacheSet(items, cacheKey, item, t, TTL)

\* ------------------------------------------------------------------ Redis
\* A key the server holds and has not expired (the server expires a key once
\* the clock is past its expiry; exp = 0 is a key without expiry).
RedisLive(srv, cacheKey, t) ==
    cacheKey \in DOMAIN srv /\ (srv[cacheKey].exp = 0 \/ t <= srv[cacheKey].exp)

\* RedisCache.Get: [content, found, err].  fault = "conn" is a connection or
\* protocol error of the client.
RedisGet(srv, cacheKey, t, fault) ==
    IF fault = "conn" THEN [content |-> << >>, found |-> FALSE, err |-> "redis error"]
    ELSE IF ~RedisLive(srv, cacheKey, t) THEN
        [content |-> << >>, found |-> FALSE, err |-> NoError]
    ELSE IF Len(srv[cacheKey].val) = 0 THEN
        [content |-> srv[cacheKey].val, found |-> FALSE, err |-> NoError]
    ELSE [content |-> srv[cacheKey].val, found |-> TRUE, err |-> NoError]

\* RedisCache.Set: [srv, err]; SET with EX/PX for a positive TTL, without
\* expiry for a TTL of 0.
RedisSet(srv, cacheKey, item, t, TTL, fault) ==
    IF fault = "conn" THEN [srv |-> srv, err |-> "redis error"]
    ELSE [srv |-> Put(srv, cacheKey,
                      [val |-> item, exp |-> IF TTL > 0 THEN t + TTL ELSE 0]),
          err |-> NoError]

\* The seconds EXPIRE is sent with: a positive duration under one second is
\* raised to 1 s, any other duration is cut to whole seconds.
ExpireSeconds(TTL) ==
    IF TTL > 0 /\ TTL < TicksPerSecond THEN 1 ELSE TTL \div TicksPerSecond

\* RedisCache.ExtendTTL: [srv, err]; EXPIRE alone, the item is not sent.
RedisExtendTTL(srv, cacheKey, item, t, TTL, fault) ==
    IF fault = "conn" THEN [srv |-> srv, err |-> "redis error"]
    ELSE IF ~RedisLive(srv, cacheKey, t) THEN [srv |-> srv, err |-> NoError]
    ELSE IF ExpireSeconds(TTL) <= 0 THEN [srv |-> Del(srv, cacheKey), err |-> NoError]
    ELSE [srv |-> Put(srv, cacheKey,
                      [val |-> srv[cacheKey].val,
                       exp |-> t + ExpireSeconds(TTL) * TicksPerSecond]),
          err |-> NoError]

\* RedisCache.GetItemTTL: [dur, found, err]; TTL answers in whole seconds,
\* rounded, -2 for a missing key and -1 for a key without expiry.
RedisGetItemTTL(srv, cacheKey, t, fault) ==
    IF fault = "conn" THEN [dur |-> 0, found |-> FALSE, err |-> "redis error"]
    ELSE IF ~RedisLive(srv, cacheKey, t) THEN
        [dur |-> 0 - 2, found |-> TRUE, err |-> NoError]
    ELSE IF srv[cacheKey].exp = 0 THEN
        [dur |-> 0 - 1, found |-> TRUE, err |-> NoError]
    ELSE [dur |-> ((2 * (srv[cacheKey].exp - t) + TicksPerSecond)
                      \div (2 * TicksPerSecond)) * TicksPerSecond,
          found |-> TRUE, err |-> NoError]

\* ------------------------------------------------------------------ calls
NoPre == [op |-> "none", key |-> "", item |-> << >>, fault |-> "none", err |-> NoError]

\* The record of a call: what was asked, and the zero value of every result.
\* pre: for a Get or GetItemTTL, the call before it, when that was a Set or
\* ExtendTTL on the same instance.  hadTTL, hadContent, expired: what the store held for the key
\* when the call read it (see Probe).
Call(op, inst, key, item, fault) ==
    [op |-> op, inst |-> inst, key |-> key, item |-> item, fault |-> fault,
     content |-> << >>, boxed |-> FALSE, found |-> FALSE, err |-> NoError,
     initErr |-> NoError, dur |-> 0, type |-> "", conf |-> Nil, arg |-> Nil,
     hadTTL |-> FALSE, hadContent |-> FALSE, expired |-> FALSE,
     pre |-> IF /\ op \in {"Get", "GetItemTTL"}
                /\ last.op \in {"Set", "ExtendTTL"}
                /\ last.inst = inst
             THEN [op |-> last.op, key |-> last.key, item |-> last.item,
                   fault |-> last.fault, err |-> last.err]
             ELSE NoPre]

\* The storage a backend object reads and writes.
StoreOf(i) ==
    CASE heap[i].type = "GoCache"     -> <<"memory", i>>
      [] heap[i].type = "BadgerCache" -> <<"badger", 0>>
      [] heap[i].type = "RedisCache"  -> <<"redis", 0>>

\* The storage failures a read and a write of each backend can meet.
GetFaults(type) ==
    CASE type = "BadgerCache" -> {"none", "read", "delete"}
      [] type = "RedisCache"  -> {"none", "conn"}
      [] OTHER                -> {"none"}

TTLFaults(type) ==
    CASE type = "BadgerCache" -> {"none", "read"}
      [] type = "RedisCache"  -> {"none", "conn"}
      [] OTHER                -> {"none"}

SetFaults(type) ==
    CASE type = "BadgerCache" -> {"none", "marshal_ttl", "stage_content", "stage_ttl",
                                  "commit"}
      [] type = "RedisCache"  -> {"none", "conn"}
      [] OTHER                -> {"none"}

\* ------------------------------------------------------------------ CacheInit
RecognizedTypes == {"memory", "file", "badger", "redis"}

\* badger.Open(path): fails on a path that cannot be created and on a
\* directory whose lock another open DB of the process holds.
BadgerOpen(path, lock) ==
    IF path \in OpenablePaths /\ ~lock THEN NoError ELSE "cannot open"

\* The object the switch of CacheInit constructs for a recognized Type.
Construct(conf, rev) ==
    CASE conf.Type = "memory" ->
           [type |-> "GoCache", rev |-> "goCache.go", Path |-> "", Address |-> "",
            DB |-> 0, Config |-> conf, open |-> FALSE, items |-> EmptyMap]
      [] conf.Type \in {"file", "badger"} ->
           [type |-> "BadgerCache", rev |-> rev, Path |-> conf.Path, Address |-> "",
            DB |-> 0, Config |-> conf, open |-> FALSE, items |-> EmptyMap]
      [] conf.Type = "redis" ->
           [type |-> "RedisCache", rev |-> "goCache.go", Path |-> "",
            Address |-> conf.RedisHost, DB |-> conf.RedisDB, Config |-> conf,
            open |-> FALSE, items |-> EmptyMap]

\* Init of the three backends: the error it returns.
BackendInit(o, lock) ==
    IF o.type = "BadgerCache" THEN BadgerOpen(o.Path, lock) ELSE NoError

\* A default case that falls back to the in-memory backend instead of ending
\* the process.
DefaultCaseFallsBack(conf) ==
    [conf |-> conf, outcome |-> "ok", err |-> NoError, initErr |-> NoError,
     obj |-> [Construct([conf EXCEPT !.Type = "memory"], "goCache.go")
                  EXCEPT !.open = TRUE]]

\* The default case of the switch: log.Fatal prints and calls os.Exit(1);
\* nothing is constructed and CacheInit never returns.
DefaultCase(conf) ==
    [conf |-> conf, outcome |-> "fatal", err |-> NoError, initErr |-> NoError,
     obj |-> Nil]

\* A CacheInit that goes on to the switch after a failed ParseDuration, with
\* the zero duration, and returns the parse error next to the backend.
DispatchAfterParseError(D, cacheConfig, rev, lock) ==
    LET merged == Merge(D, cacheConfig)
        p      == ParseDuration(merged.Expiration)
        conf   == [merged EXCEPT !.TTL = p.d]
    IN  IF conf.Type \notin RecognizedTypes THEN DefaultCase(conf)
        ELSE
            LET o       == Construct(conf, rev)
                initErr == BackendInit(o, lock)
            IN  [conf |-> conf, outcome |-> "ok",
                 err |-> p.err, initErr |-> initErr,
                 obj |-> [o EXCEPT !.open = (initErr = NoError)]]

\* CacheInit(ctx, cacheConfig):
\* [conf, outcome, err, initErr, obj]; outcome is "error" (returns nil, err),
\* "fatal" (log.Fatal ends the process) or "ok" (returns CacheInstance, nil).
Dispatch(D, cacheConfig, rev, lock) ==
    LET merged == Merge(D, cacheConfig)
        p      == ParseDuration(merged.Expiration)
        conf   == [merged EXCEPT !.TTL = p.d]
    IN  IF p.err # NoError THEN
            [conf |-> merged, outcome |-> "error", err |-> p.err,
             initErr |-> NoError, obj |-> Nil]
        ELSE IF conf.Type \notin RecognizedTypes THEN DefaultCase(conf)
        ELSE
            LET o       == Construct(conf, rev)
                initErr == BackendInit(o, lock)
            IN  [conf |-> conf, outcome |-> "ok",
                 err |-> NoError, initErr |-> initErr,
                 obj |-> [o EXCEPT !.open = (initErr = NoError)]]

CacheInit(cacheConfig, rev) ==
    /\ status = "running"
    /\ Len(heap) < MaxInstances
    /\ LET r == Dispatch(DefaultConfig, cacheConfig, rev, dirLock)
           c == [Call("CacheInit", 0, "", << >>, "none") EXCEPT
                    !.type = r.conf.Type, !.err = r.err, !.initErr = r.initErr,
                    !.arg = cacheConfig]
       IN  /\ DefaultConfig' = r.conf
           /\ IF r.outcome = "ok" THEN
                  /\ heap' = Append(heap, r.obj)
                  /\ CacheInstance' = Len(heap) + 1
                  /\ dirLock' = (dirLock \/ (r.obj.type = "BadgerCache" /\ r.obj.open))
                  /\ last' = [c EXCEPT !.inst = Len(heap) + 1]
                  /\ status' = status
              ELSE
                  /\ status' = IF r.outcome = "fatal" THEN "fatal" ELSE status
                  /\ last' = c
                  /\ UNCHANGED << heap, CacheInstance, dirLock >>
    /\ UNCHANGED << goroutines, latest, disk, redis, now, written >>

\* The older revision of the dispatcher.  Its switch has an empty
\* `case "file":` ahead of `case "badger":`; a Go case does not fall through,
\* so Type "file" constructs nothing and leaves CacheInstance as it was.
ConstructsPart000(conf) == conf.Type \in {"memory", "badger", "redis"}

\* Init run once more on an object that already exists: GoCache replaces its
\* store by a new empty one, BadgerCache opens its directory again (and keeps
\* the handle it has when that fails), RedisCache makes a new client.
InitAgain(o, lock) ==
    CASE o.type = "GoCache"     -> [o EXCEPT !.open = TRUE, !.items = EmptyMap]
      [] o.type = "BadgerCache" -> [o EXCEPT !.open = o.open \/ (BadgerOpen(o.Path, lock) = NoError)]
      [] OTHER                  -> [o EXCEPT !.open = TRUE]

\* CacheInit of the older revision: merge into the package's defaultConfig,
\* parse, switch, then CacheInstance.Init() (its error dropped) and
\* return CacheInstance, nil.  With nothing constructed, Init runs on the
\* instance of an earlier call, or on the nil interface: a panic.
CacheInitPart000(cacheConfig, rev) ==
    /\ status = "running"
    /\ Len(heap) < MaxInstances
    /\ LET merged == Merge(DefaultConfig, cacheConfig)
           p      == ParseDuration(merged.Expiration)
           conf   == [merged EXCEPT !.TTL = p.d]
           c      == [Call("CacheInit", 0, "", << >>, "none") EXCEPT
                         !.type = merged.Type, !.err = p.err, !.arg = cacheConfig]
       IN  /\ DefaultConfig' = merged
           /\ IF p.err # NoError THEN
                  /\ last' = c
                  /\ UNCHANGED << heap, CacheInstance, dirLock, status >>
              ELSE IF merged.Type \notin RecognizedTypes THEN
                  /\ status' = "fatal"
                  /\ last' = c
                  /\ UNCHANGED << heap, CacheInstance, dirLock >>
              ELSE IF ConstructsPart000(merged) THEN
                  LET o       == Construct(conf, rev)
                      initErr == BackendInit(o, dirLock)
                      obj     == [o EXCEPT !.open = (initErr = NoError)]
                  IN  /\ heap' = Append(heap, obj)
                      /\ CacheInstance' = Len(heap) + 1
                      /\ dirLock' = (dirLock \/ (obj.type = "BadgerCache" /\ obj.open))
                      /\ last' = [c EXCEPT !.inst = Len(heap) + 1, !.initErr = initErr]
                      /\ status' = status
              ELSE IF CacheInstance = 0 THEN
                  /\ status' = "panic"
                  /\ last' = c
                  /\ UNCHANGED << heap, CacheInstance, dirLock >>
              ELSE
                  LET obj == InitAgain(heap[CacheInstance], dirLock)
                  IN  /\ heap' = [heap EXCEPT ![CacheInstance] = obj]
                      /\ dirLock' = (dirLock \/ (obj.type = "BadgerCache" /\ obj.open))
                      /\ last' = [c EXCEPT !.inst = CacheInstance]
                      /\ UNCHANGED << CacheInstance, status >>
    /\ UNCHANGED << goroutines, latest, disk, redis, now, written >>

\* ------------------------------------------------------------------ the contract
\* A method called on a backend whose handle Init never set dereferences a
\* nil pointer: the process panics.
Panic(c) ==
    /\ status' = "panic"
    /\ last' = c
    /\ UNCHANGED << goroutines, latest, DefaultConfig, CacheInstance, heap, disk, dirLock, redis,
                    now, written >>

\* What the store of backend o holds for cacheKey at the time of a call:
\* whether an expiry and a payload are stored, and whether that expiry has
\* been reached (expiresAt <= now).
Probe(o, cacheKey) ==
    CASE o.type = "GoCache" ->
           [hadTTL |-> cacheKey \in DOMAIN o.items,
            hadContent |-> cacheKey \in DOMAIN o.items,
            expired |-> /\ cacheKey \in DOMAIN o.items
                        /\ o.items[cacheKey].Expiration > 0
                        /\ o.items[cacheKey].Expiration <= now]
      [] o.type = "BadgerCache" ->
           [hadTTL |-> TTLKey(cacheKey) \in DOMAIN disk,
            hadContent |-> ContentKey(cacheKey) \in DOMAIN disk,
            expired |-> /\ TTLKey(cacheKey) \in DOMAIN disk
                        /\ JsonUnmarshalTime(disk[TTLKey(cacheKey)]) <= now]
      [] o.type = "RedisCache" ->
           [hadTTL |-> cacheKey \in DOMAIN redis,
            hadContent |-> cacheKey \in DOMAIN redis,
            expired |-> /\ cacheKey \in DOMAIN redis
                        /\ redis[cacheKey].exp > 0
                        /\ redis[cacheKey].exp <= now]

\* The call record c with what Probe saw.
Seen(c, o) ==
    LET p == Probe(o, c.key)
    IN  [c EXCEPT !.hadTTL = p.hadTTL, !.hadContent = p.hadContent,
                  !.expired = p.expired]

\* Get through the interface: [db, srv, content, boxed, found, err].
GetResult(o, cacheKey, fault) ==
    CASE o.type = "GoCache" ->
           LET r == GoCacheGet(o.items, cacheKey, now)
           IN  [db |-> disk, srv |-> redis, content |-> r.content, boxed |-> FALSE,
                found |-> r.found, err |-> r.err]
      [] o.type = "BadgerCache" ->
           LET r == BadgerGet(o.rev, disk, cacheKey, now, fault)
           IN  [db |-> r.db, srv |-> redis, content |-> r.content, boxed |-> r.boxed,
                found |-> r.found, err |-> r.err]
      [] o.type = "RedisCache" ->
           LET r == RedisGet(redis, cacheKey, now, fault)
           IN  [db |-> disk, srv |-> redis, content |-> r.content, boxed |-> FALSE,
                found |-> r.found, err |-> r.err]

Get(i, cacheKey, fault) ==
    /\ status = "running"
    /\ fault \in GetFaults(heap[i].type)
    /\ LET c == Call("Get", i, cacheKey, << >>, fault)
       IN  IF ~heap[i].open THEN Panic(c)
           ELSE LET r == GetResult(heap[i], cacheKey, fault)
                IN  /\ disk' = r.db
                    /\ redis' = r.srv
                    /\ last' = [Seen(c, heap[i]) EXCEPT
                                    !.content = r.content, !.boxed = r.boxed,
                                    !.found = r.found, !.err = r.err]
                    /\ UNCHANGED << goroutines, latest, DefaultConfig, CacheInstance, heap, dirLock,
                                    now, written, status >>

\* Set and ExtendTTL through the interface: [items, db, srv, err].
SetResult(o, cacheKey, item, fault) ==
    CASE o.type = "GoCache" ->
           [items |-> GoCacheSet(o.items, cacheKey, item, now, o.Config.TTL),
            db |-> disk, srv |-> redis, err |-> NoError]
      [] o.type = "BadgerCache" ->
           LET r == BadgerSet(o.rev, disk, cacheKey, item, now, o.Config.TTL, fault)
           IN  [items |-> o.items, db |-> r.db, srv |-> redis, err |-> r.err]
      [] o.type = "RedisCache" ->
           LET r == RedisSet(redis, cacheKey, item, now, o.Config.TTL, fault)
           IN  [items |-> o.items, db |-> disk, srv |-> r.srv, err |-> r.err]

ExtendTTLResult(o, cacheKey, item, fault) ==
    CASE o.type = "GoCache" ->
           [items |-> GoCacheExtendTTL(o.items, cacheKey, item, now, o.Config.TTL),
            db |-> disk, srv |-> redis, err |-> NoError]
      [] o.type = "BadgerCache" ->
           LET r == BadgerExtendTTL(o.rev, disk, cacheKey, item, now, o.Config.TTL, fault)
           IN  [items |-> o.items, db |-> r.db, srv |-> redis, err |-> r.err]
      [] o.type = "RedisCache" ->
           LET r == RedisExtendTTL(redis, cacheKey, item, now, o.Config.TTL, fault)
           IN  [items |-> o.items, db |-> disk, srv |-> r.srv, err |-> r.err]

\* The state change shared by Set and ExtendTTL.
Write(c, i, r) ==
    /\ heap' = [heap EXCEPT ![i].items = r.items]
    /\ disk' = r.db
    /\ redis' = r.srv
    /\ written' = written \cup {<<StoreOf(i), c.key>>}
    /\ last' = [c EXCEPT !.err = r.err]
    /\ UNCHANGED << goroutines, latest, DefaultConfig, CacheInstance, dirLock, now, status >>

Set(i, cacheKey, item, fault) ==
    /\ status = "running"
    /\ fault \in SetFaults(heap[i].type)
    /\ LET c == Call("Set", i, cacheKey, item, fault)
       IN  IF ~heap[i].open THEN Panic(c)
           ELSE Write(c, i, SetResult(heap[i], cacheKey, item, fault))

ExtendTTL(i, cacheKey, item, fault) ==
    /\ status = "running"
    /\ fault \in SetFaults(heap[i].type)
    /\ LET c == Call("ExtendTTL", i, cacheKey, item, fault)
       IN  IF ~heap[i].open THEN Panic(c)
           ELSE Write(c, i, ExtendTTLResult(heap[i], cacheKey, item, fault))

\* GetItemTTL through the interface: [dur, found, err].
GetItemTTLResult(o, cacheKey, fault) ==
    CASE o.type = "GoCache"     -> GoCacheGetItemTTL(o.items, cacheKey, now)
      [] o.type = "BadgerCache" -> BadgerGetItemTTL(o.rev, disk, cacheKey, now, fault)
      [] o.type = "RedisCache"  -> RedisGetItemTTL(redis, cacheKey, now, fault)

GetItemTTL(i, cacheKey, fault) ==
    /\ status = "running"
    /\ fault \in TTLFaults(heap[i].type)
    /\ LET c == Call("GetItemTTL", i, cacheKey, << >>, fault)
       IN  IF ~heap[i].open THEN Panic(c)
           ELSE LET r == GetItemTTLResult(heap[i], cacheKey, fault)
                IN  /\ last' = [Seen(c, heap[i]) EXCEPT
                                    !.dur = r.dur, !.found = r.found, !.err = r.err]
                    /\ UNCHANGED << goroutines, latest, DefaultConfig, CacheInstance, heap, disk,
                                    dirLock, redis, now, written, status >>

\* A GetConfig that returns the process-wide configuration instead of the
\* field of the receiver.
GetConfigReturnsDefault(o) == DefaultConfig

\* GetConfig of the three backends: return c.Config, a copy of the struct.
GetConfigResult(o) == o.Config

\* GetConfig reads a field of the receiver only: it works on a backend whose
\* Init failed as well.
GetConfig(i) ==
    /\ status = "running"
    /\ last' = [Call("GetConfig", i, "", << >>, "none") EXCEPT
                    !.conf = GetConfigResult(heap[i])]
    /\ UNCHANGED << goroutines, latest, DefaultConfig, CacheInstance, heap, disk, dirLock, redis,
                    now, written, status >>

\* Wall-clock time passes between calls.
Tick ==
    /\ status = "running"
    /\ now < MaxTime
    /\ now' = now + 1
    /\ UNCHANGED << goroutines, latest, DefaultConfig, CacheInstance, heap, disk, dirLock, redis,
                    written, status, last >>

\* ------------------------------------------------------------------ specifications
AllFaults ==
    {"none", "read", "delete", "conn", "marshal_ttl", "stage_content", "stage_ttl",
     "commit"}

BootCall ==
    [op |-> "boot", inst |-> 0, key |-> "", item |-> << >>, fault |-> "none",
     content |-> << >>, boxed |-> FALSE, found |-> FALSE, err |-> NoError,
     initErr |-> NoError, dur |-> 0, type |-> "", conf |-> Nil, arg |-> Nil,
     hadTTL |-> FALSE, hadContent |-> FALSE, expired |-> FALSE, pre |-> NoPre]

\* A Badger directory left by an earlier run that wrote its two records in
\* separate transactions: the ttl record of "a" without its content record.
OrphanDisk == [k \in {TTLKey("a")} |-> JsonMarshalTime(MaxTime + TicksPerSecond)]

\* The process at start, before any CacheInit.
Boot ==
    /\ DefaultConfig = DefaultConfigValue
    /\ CacheInstance = 0
    /\ heap = << >>
    /\ disk = EmptyMap
    /\ dirLock = FALSE
    /\ redis = EmptyMap
    /\ now = 0
    /\ written = {}
    /\ status = "running"
    /\ goroutines = NoGoroutines
    /\ latest = NoEntries
    /\ last = BootCall

\* The dispatcher alone: any sequence of CacheInit calls.
NextDispatch == \E cacheConfig \in CacheConfigs, rev \in BadgerRevs : CacheInit(cacheConfig, rev)

SpecDispatch == Boot /\ [][NextDispatch]_vars

\* One backend in use: the state after a CacheInit that returned a backend
\* with an open handle, over an empty or a left-over Badger directory.
InitConfigs == {c \in CacheConfigs : c.Type \in {"", "badger", "redis"} /\ c.Path = ""}

Init ==
    \E cacheConfig \in InitConfigs, rev \in BadgerRevs, d \in {EmptyMap, OrphanDisk} :
        LET r == Dispatch(DefaultConfigValue, cacheConfig, rev, FALSE)
        IN  /\ r.outcome = "ok"
            /\ r.obj.open
            /\ (d # EmptyMap => r.obj.type = "BadgerCache")
            /\ DefaultConfig = r.conf
            /\ CacheInstance = 1
            /\ heap = << r.obj >>
            /\ disk = d
            /\ dirLock = (r.obj.type = "BadgerCache")
            /\ redis = EmptyMap
            /\ now = 0
            /\ written = {<<(<<"badger", 0>>), k>> : k \in {x \in Keys : TTLKey(x) \in DOMAIN d}}
            /\ status = "running"
            /\ goroutines = NoGoroutines
            /\ latest = NoEntries
            /\ last = [BootCall EXCEPT !.op = "CacheInit", !.inst = 1,
                                       !.type = r.conf.Type]

Next ==
    \/ \E i \in 1..Len(heap), k \in Keys, f \in AllFaults : Get(i, k, f)
    \/ \E i \in 1..Len(heap), k \in Keys, c \in Contents, f \in AllFaults : Set(i, k, c, f)
    \/ \E i \in 1..Len(heap), k \in Keys, c \in Contents, f \in AllFaults : ExtendTTL(i, k, c, f)
    \/ \E i \in 1..Len(heap), k \in Keys, f \in AllFaults : GetItemTTL(i, k, f)
    \/ Tick

Spec == Init /\ [][Next]_vars

\* ------------------------------------------------------------------ claims
\* The backend object the last call was made on.
LastIsOn(type) ==
    /\ last.inst \in 1..Len(heap)
    /\ heap[last.inst].type = type

\* The last call was a Get that met no storage failure and came right after
\* a successful op(key, item) on the same key of the same instance.
GetRightAfter(op) ==
    /\ last.op = "Get"
    /\ last.fault = "none"
    /\ last.pre.op = op
    /\ last.pre.key = last.key
    /\ last.pre.fault = "none"
    /\ last.pre.err = NoError

\* C1: on the Badger backend, for every TTL > 0, a Get right after a
\* successful Set of the same key, made before the clock reaches the entry's
\* expiresAt, returns (content, true, nil).
C1_GetAfterSetBadger ==
    (GetRightAfter("Set") /\ LastIsOn("BadgerCache") /\ ~last.expired)
        => (last.found /\ last.content = last.pre.item /\ last.err = NoError)

\* C2: on the Badger backend Get returns found = true exactly when a ttl
\* record exists and now < expiresAt (the key holding both records or none).
C2_FoundIffLive ==
    (/\ last.op = "Get"
     /\ last.fault = "none"
     /\ LastIsOn("BadgerCache")
     /\ last.hadTTL = last.hadContent)
        => (last.found <=> (last.hadTTL /\ ~last.expired))

\* No record of the last call's key is left in the store of its backend.
NoRecordLeft ==
    CASE LastIsOn("GoCache")     -> last.key \notin DOMAIN heap[last.inst].items
      [] LastIsOn("BadgerCache") -> /\ ContentKey(last.key) \notin DOMAIN disk
                                    /\ TTLKey(last.key) \notin DOMAIN disk
      [] LastIsOn("RedisCache")  -> last.key \notin DOMAIN redis

\* The last call was a Get or GetItemTTL of a key nothing was ever written
\* for, and the read of the store did not fail.
ReadOfNeverWritten(op) ==
    /\ last.op = op
    /\ last.fault \notin {"read", "conn"}
    /\ <<StoreOf(last.inst), last.key>> \notin written

\* C3: on every backend, Get of a key that was never written returns
\* found = false with a nil error, and the store still holds no record of it.
C3_GetNeverWritten ==
    ReadOfNeverWritten("Get")
        => (~last.found /\ last.err = NoError /\ NoRecordLeft)

C3_Witness ==
    /\ ReadOfNeverWritten("Get")
    /\ LastIsOn("BadgerCache")
    /\ ~last.found

\* C4: on the Badger backend, a Get of an entry whose expiresAt has been
\* reached returns found = false with a nil error, and once its delete has
\* committed neither <key>_content nor <key>_ttl is left.
C4_ExpiredIsReaped ==
    (/\ last.op = "Get"
     /\ last.fault # "read"
     /\ LastIsOn("BadgerCache")
     /\ last.hadTTL /\ last.hadContent /\ last.expired)
        => (/\ ~last.found
            /\ last.err = NoError
            /\ (last.fault = "none" => NoRecordLeft))

C4_Witness ==
    /\ last.op = "Get"
    /\ last.fault = "none"
    /\ LastIsOn("BadgerCache")
    /\ last.hadTTL /\ last.hadContent /\ last.expired
    /\ ~last.found
    /\ NoRecordLeft

\* C5: on every backend, a Get right after ExtendTTL(key, newContent), for a
\* key in any state, returns (newContent, true, nil).
C5_GetAfterExtendTTL ==
    (GetRightAfter("ExtendTTL") /\ ~last.expired)
        => (last.found /\ last.content = last.pre.item /\ last.err = NoError)

\* C6: when the Init of the selected backend returns an error, CacheInit
\* returns a non-nil error and hands out no backend whose handle is not open.
C6_InitErrorPropagates ==
    (last.op = "CacheInit" /\ last.initErr # NoError)
        => (/\ last.err # NoError
            /\ (last.inst = 0 \/ heap[last.inst].open))

\* C7 as stated: for an unrecognized Type, CacheInit returns a configuration
\* error to its caller and no backend.
C7_UnrecognizedReturnsError ==
    (last.op = "CacheInit" /\ last.type \notin RecognizedTypes)
        => (status = "running" /\ last.err # NoError /\ last.inst = 0)

\* C7 as amended: when the Expiration parses and the resolved Type is not
\* recognized, the CacheInit call does not return, the process ends in
\* log.Fatal; no backend is constructed, no Init runs (no handle is opened)
\* and CacheInstance is not replaced.
C7_UnrecognizedIsFatal ==
    [][(/\ now' = now
        /\ last'.op = "CacheInit"
        /\ last'.type \notin RecognizedTypes
        /\ last'.err = NoError)
          => (/\ status' = "fatal"
              /\ last'.inst = 0
              /\ heap' = heap
              /\ dirLock' = dirLock
              /\ CacheInstance' = CacheInstance)]_vars

C7_Witness ==
    /\ last.op = "CacheInit"
    /\ last.type = "bogus"
    /\ last.err = NoError
    /\ status = "fatal"
    /\ Len(heap) > 0

\* C8: on the Badger backend, an ExtendTTL whose Set fails at staging or at
\* commit returns that error.
C8_ExtendTTLReturnsSetError ==
    (last.op = "ExtendTTL" /\ LastIsOn("BadgerCache") /\ last.fault # "none")
        => last.err # NoError

\* C9: on the Badger backend, Get of a key whose ttl record is in the future
\* and whose content record is missing returns found = false with a nil error.
C9_OrphanTTLIsNotFound ==
    (/\ last.op = "Get"
     /\ last.fault = "none"
     /\ LastIsOn("BadgerCache")
     /\ last.hadTTL /\ ~last.hadContent /\ ~last.expired)
        => (~last.found /\ last.err = NoError)

\* C10: on every backend, Set then Get before expiry returns found = true and
\* exactly the bytes passed to Set, the 0-length payload included.
C10_RoundTrip ==
    (GetRightAfter("Set") /\ ~last.expired)
        => (last.found /\ last.content = last.pre.item)

\* C11: on every backend, GetItemTTL of a key with no stored entry returns
\* found = false with a nil error, and found = true is returned only when an
\* expiry for the key is stored.
C11_TTLOfAbsentIsNotFound ==
    (last.op = "GetItemTTL" /\ last.fault = "none")
        => (/\ (~last.hadTTL /\ ~last.hadContent)
                  => (~last.found /\ last.err = NoError)
            /\ last.found => last.hadTTL)

\* The expiry the store of the last call's backend holds for its key.
StoredExpiry ==
    CASE LastIsOn("GoCache")     -> heap[last.inst].items[last.key].Expiration
      [] LastIsOn("BadgerCache") -> JsonUnmarshalTime(disk[TTLKey(last.key)])
      [] LastIsOn("RedisCache")  -> redis[last.key].exp

\* The last call was a GetItemTTL that met no storage failure and came right
\* after a successful Set of the same key on the same instance, before the
\* expiry that Set wrote.
TTLRightAfterSet ==
    /\ last.op = "GetItemTTL"
    /\ last.fault = "none"
    /\ last.pre.op = "Set"
    /\ last.pre.key = last.key
    /\ last.pre.fault = "none"
    /\ last.pre.err = NoError
    /\ heap[last.inst].Config.TTL > 0
    /\ ~last.expired

\* C12: for every TTL T > 0, a GetItemTTL after Set, made strictly before
\* the entry's expiry, returns found = true and d = expiresAt - now, with
\* 0 < d <= T.
C12_TTLAfterSet ==
    [][(now' = now /\ TTLRightAfterSet')
          => (/\ last'.found
              /\ last'.dur = StoredExpiry' - now'
              /\ 0 < last'.dur
              /\ last'.dur <= heap'[last'.inst].Config.TTL)]_vars

\* ------------------------------------------------------------------ two backends side by side
\* The in-memory backend (heap[1]) and the Badger backend (heap[2]), built
\* from the same Expiration, are driven by the same calls at the same clock
\* values; last keeps what each of them returned.
EquivExpirations == {"0s", "500ms", "1s"}

BothCall(op, key, item, mem, badger) ==
    [op |-> op, key |-> key, item |-> item, mem |-> mem, badger |-> badger]

NoReturn == [content |-> << >>, found |-> FALSE, dur |-> 0, err |-> NoError]

InitBoth ==
    \E e \in EquivExpirations, rev \in BadgerRevs :
        LET conf == [DefaultConfigValue EXCEPT !.Expiration = e]
            m == Dispatch(conf, [conf EXCEPT !.Type = "memory"], rev, FALSE)
            b == Dispatch(m.conf, [conf EXCEPT !.Type = "badger"], rev, FALSE)
        IN  /\ DefaultConfig = b.conf
            /\ CacheInstance = 2
            /\ heap = << m.obj, b.obj >>
            /\ disk = EmptyMap
            /\ dirLock = TRUE
            /\ redis = EmptyMap
            /\ now = 0
            /\ written = {}
            /\ status = "running"
            /\ goroutines = NoGoroutines
            /\ latest = NoEntries
            /\ last = BothCall("CacheInit", "", << >>, NoReturn, NoReturn)

GetBoth(cacheKey) ==
    LET m == GetResult(heap[1], cacheKey, "none")
        b == GetResult(heap[2], cacheKey, "none")
    IN  /\ status = "running"
        /\ disk' = b.db
        /\ last' = BothCall("Get", cacheKey, << >>,
                            [NoReturn EXCEPT !.content = m.content, !.found = m.found,
                                             !.err = m.err],
                            [NoReturn EXCEPT !.content = b.content, !.found = b.found,
                                             !.err = b.err])
        /\ UNCHANGED << goroutines, latest, DefaultConfig, CacheInstance, heap, dirLock, redis, now,
                        written, status >>

GetItemTTLBoth(cacheKey) ==
    LET m == GetItemTTLResult(heap[1], cacheKey, "none")
        b == GetItemTTLResult(heap[2], cacheKey, "none")
    IN  /\ status = "running"
        /\ last' = BothCall("GetItemTTL", cacheKey, << >>,
                            [NoReturn EXCEPT !.dur = m.dur, !.found = m.found,
                                             !.err = m.err],
                            [NoReturn EXCEPT !.dur = b.dur, !.found = b.found,
                                             !.err = b.err])
        /\ UNCHANGED << goroutines, latest, DefaultConfig, CacheInstance, heap, disk, dirLock, redis,
                        now, written, status >>

\* The state change shared by SetBoth and ExtendTTLBoth.
WriteBoth(op, cacheKey, item, m, b) ==
    /\ status = "running"
    /\ heap' = [heap EXCEPT ![1].items = m.items]
    /\ disk' = b.db
    /\ last' = BothCall(op, cacheKey, item, [NoReturn EXCEPT !.err = m.err],
                        [NoReturn EXCEPT !.err = b.err])
    /\ UNCHANGED << goroutines, latest, DefaultConfig, CacheInstance, dirLock, redis, now, written,
                    status >>

SetBoth(cacheKey, item) ==
    WriteBoth("Set", cacheKey, item, SetResult(heap[1], cacheKey, item, "none"),
              SetResult(heap[2], cacheKey, item, "none"))

ExtendTTLBoth(cacheKey, item) ==
    WriteBoth("ExtendTTL", cacheKey, item,
              ExtendTTLResult(heap[1], cacheKey, item, "none"),
              ExtendTTLResult(heap[2], cacheKey, item, "none"))

NextBoth ==
    \/ \E k \in Keys : GetBoth(k)
    \/ \E k \in Keys : GetItemTTLBoth(k)
    \/ \E k \in Keys, c \in Contents : SetBoth(k, c)
    \/ \E k \in Keys, c \in Contents : ExtendTTLBoth(k, c)
    \/ Tick

SpecBoth == InitBoth /\ [][NextBoth]_vars

\* C13: the Badger and the in-memory backend, given the same TTL (0
\* included) and the same sequence of Set, ExtendTTL, Get, GetItemTTL and
\* clock advances, return the same found on every Get and GetItemTTL, and
\* the same content on every found Get.
C13_BadgerEquivalentToMemory ==
    last.op \in {"Get", "GetItemTTL"}
        => (/\ last.mem.found = last.badger.found
            /\ (last.op = "Get" /\ last.mem.found)
                  => last.mem.content = last.badger.content)

\* The store of the last call's backend holds exactly the entry (item, exp)
\* for the call's key.
HoldsEntry(item, exp) ==
    CASE LastIsOn("GoCache") ->
           /\ last.key \in DOMAIN heap[last.inst].items
           /\ heap[last.inst].items[last.key] = [Object |-> item, Expiration |-> exp]
      [] LastIsOn("BadgerCache") ->
           /\ ContentKey(last.key) \in DOMAIN disk
           /\ TTLKey(last.key) \in DOMAIN disk
           /\ disk[ContentKey(last.key)] = BadgerItemBytes(heap[last.inst].rev, item)
           /\ JsonUnmarshalTime(disk[TTLKey(last.key)]) = exp
      [] LastIsOn("RedisCache") ->
           /\ last.key \in DOMAIN redis
           /\ redis[last.key] = [val |-> item, exp |-> exp]

\* C14: on the Badger and the in-memory backend, a successful Set(key,
\* content) at time t, from any prior state of the key, leaves exactly the
\* entry (content, t + defaultTTL), and a Get after the most recent Set and
\* before its expiry returns that Set's content.
C14_SetIsUpsert ==
    [][(/\ now' = now
        /\ last'.fault = "none"
        /\ heap'[last'.inst].type \in {"BadgerCache", "GoCache"})
          => (/\ (last'.op = "Set" /\ last'.err = NoError)
                    => HoldsEntry(last.item, now + heap[last.inst].Config.TTL)'
              /\ (GetRightAfter("Set")' /\ ~last'.expired)
                    => (last'.found /\ last'.content = last'.pre.item))]_vars

\* ------------------------------------------------------------------ the process as a whole
\* CacheInit calls and calls on every backend handed out so far, in any
\* order.  ProcessConfigs: the configurations the CacheInit calls are given.
ProcessConfigs ==
    {c \in CacheConfigs : /\ c.Type \in {"memory", "badger"}
                          /\ c.Expiration \in {"", "1s"}
                          /\ c.Path = ""}

\* The one payload written in this specification.
ProcessContents == {<<118>>}

NextProcess ==
    \/ \E cacheConfig \in ProcessConfigs : CacheInit(cacheConfig, "badger.go")
    \/ \E i \in 1..Len(heap) : GetConfig(i)
    \/ \E i \in 1..Len(heap), k \in Keys : Get(i, k, "none")
    \/ \E i \in 1..Len(heap), k \in Keys, c \in ProcessContents : Set(i, k, c, "none")
    \/ \E i \in 1..Len(heap), k \in Keys, c \in ProcessContents : ExtendTTL(i, k, c, "none")
    \/ \E i \in 1..Len(heap), k \in Keys : GetItemTTL(i, k, "none")
    \/ Tick

SpecProcess == Boot /\ [][NextProcess]_vars

\* C15: the Config of a backend instance never changes after construction,
\* neither by Get/Set/GetItemTTL/ExtendTTL on the instance nor by a later
\* CacheInit with another configuration, and GetConfig returns it.
C15_GetConfigIsFixed ==
    [][/\ \A i \in 1..Len(heap) : heap'[i].Config = heap[i].Config
       /\ (now' = now /\ last'.op = "GetConfig")
             => last'.conf = heap[last'.inst].Config]_vars

\* GetConfig of the first instance, after calls on it and after a second
\* CacheInit that changed the process-wide configuration.
C15_Witness ==
    /\ last.op = "GetConfig"
    /\ last.inst = 1
    /\ Len(heap) = 2
    /\ written # {}
    /\ DefaultConfig # heap[1].Config
    /\ last.conf = heap[1].Config

\* C16: a CacheInit whose merged Expiration is not a valid duration returns
\* (nil, non-nil error); it constructs no backend, runs no Init (no handle is
\* opened), leaves CacheInstance as it was and does not end the process.
C16_BadExpirationReturnsError ==
    [][(/\ now' = now
        /\ last'.op = "CacheInit"
        /\ DefaultConfig'.Expiration \notin ValidDurations)
          => (/\ last'.err # NoError
              /\ last'.inst = 0
              /\ heap' = heap
              /\ dirLock' = dirLock
              /\ CacheInstance' = CacheInstance
              /\ status' = "running")]_vars

\* A failed CacheInit after one that handed out a backend.
C16_Witness ==
    /\ last.op = "CacheInit"
    /\ DefaultConfig.Expiration = "soon"
    /\ last.err # NoError
    /\ last.inst = 0
    /\ Len(heap) = 1
    /\ CacheInstance = 1
    /\ status = "running"

\* C17: on every backend, whenever Get returns found = true the returned
\* content is non-empty, also right after a Set of a 0-length content.
C17_FoundContentIsNonEmpty ==
    (last.op = "Get" /\ last.found) => Len(last.content) > 0

\* ------------------------------------------------------------------ Badger from an empty directory
InitEmpty ==
    /\ Init
    /\ heap[1].type = "BadgerCache"
    /\ disk = EmptyMap

SpecEmpty == InitEmpty /\ [][Next]_vars

\* C18: in every state the Badger store reaches from an empty directory by
\* Set, ExtendTTL, Get (with its reaping delete) and GetItemTTL, failing
\* staging, commit and delete included, <key>_content exists exactly when
\* <key>_ttl exists.
C18_PairInvariant ==
    \A k \in Keys : (ContentKey(k) \in DOMAIN disk) <=> (TTLKey(k) \in DOMAIN disk)

\* A Set wrote the pair, a second Set failed at commit, and the reaping
\* delete of the Get after it removed the pair.
C18_Witness ==
    /\ last.op = "Get"
    /\ last.fault = "none"
    /\ last.pre.op = "Set"
    /\ last.pre.fault = "commit"
    /\ last.hadTTL /\ last.hadContent
    /\ ~last.found
    /\ disk = EmptyMap

\* ------------------------------------------------------------------ goroutines on one Badger backend
\* Calls of several goroutines on the Badger backend heap[1], interleaved at
\* the transaction boundaries of the code.
\*
\* A read-only transaction reads from the snapshot taken by NewTransaction,
\* whatever commits afterwards.
TxnViewCurrent(snap, db) == db

TxnView(snap, db) == snap

\* The store as the two txn.Get calls of retrieveFromCache meet it: the ttl
\* record as the first read finds it, the content record as the second does.
TxnReads(first, second, cacheKey) ==
    [x \in ({TTLKey(cacheKey)} \cap DOMAIN first)
              \cup ({ContentKey(cacheKey)} \cap DOMAIN second) |->
        IF x = TTLKey(cacheKey) THEN first[x] ELSE second[x]]

ConcContents == {<<118>>, <<119, 49>>}

OthersUnchanged ==
    UNCHANGED << DefaultConfig, CacheInstance, heap, dirLock, redis, now, written,
                 status, last >>

\* Get enters retrieveFromCache: NewTransaction(false) and txn.Get of
\* <key>_ttl.
GetBegin(g, cacheKey) ==
    /\ status = "running"
    /\ goroutines[g].pc = "idle"
    /\ goroutines' = [goroutines EXCEPT ![g] =
                         [Idle EXCEPT !.pc = "content", !.op = "Get",
                                      !.key = cacheKey, !.snap = disk,
                                      !.seen = latest[cacheKey]]]
    /\ UNCHANGED << disk, latest >>
    /\ OthersUnchanged

\* txn.Get of <key>_content, and retrieveFromCache returns.
GetFetch(g) ==
    LET me == goroutines[g]
        r  == retrieveFromCache(heap[1].rev,
                                TxnReads(me.snap, TxnView(me.snap, disk), me.key),
                                me.key, "none")
    IN  /\ me.pc = "content"
        /\ goroutines' = [goroutines EXCEPT ![g] =
                             [me EXCEPT !.pc = "judge", !.snap = EmptyMap,
                                        !.content = r.Content, !.TTL = r.TTL,
                                        !.err = r.err]]
        /\ UNCHANGED << disk, latest >>
        /\ OthersUnchanged

\* Get after retrieveFromCache: the error check, time.Now() and the
\* staleness test; a live entry is returned.
GetJudge(g) ==
    LET me == goroutines[g]
    IN  /\ me.pc = "judge"
        /\ goroutines' = [goroutines EXCEPT ![g] =
                             IF me.err # NoError THEN
                                 [me EXCEPT !.pc = "idle", !.content = << >>]
                             ELSE IF IsStale(me.TTL, now) THEN
                                 [me EXCEPT !.pc = "reap"]
                             ELSE [me EXCEPT !.pc = "idle", !.found = TRUE]]
        /\ UNCHANGED << disk, latest >>
        /\ OthersUnchanged

\* c.delete(cacheKey) of a Get that judged the entry stale, and its return.
GetReap(g) ==
    LET me == goroutines[g]
    IN  /\ me.pc = "reap"
        /\ disk' = BadgerDelete(disk, me.key, "none").db
        /\ latest' = [latest EXCEPT ![me.key] = NoEntry]
        /\ goroutines' = [goroutines EXCEPT ![g] = [me EXCEPT !.pc = "idle"]]
        /\ OthersUnchanged

\* Set up to the transaction: json.Marshal of the item and of
\* time.Now().Add(TTL).
SetBegin(g, cacheKey, item) ==
    /\ status = "running"
    /\ goroutines[g].pc = "idle"
    /\ goroutines' = [goroutines EXCEPT ![g] =
                         [Idle EXCEPT !.pc = "commit", !.op = "Set",
                                      !.key = cacheKey, !.item = item, !.t = now]]
    /\ UNCHANGED << disk, latest >>
    /\ OthersUnchanged

\* The write transaction of Set, committed; every Get that has begun its read
\* of the same key and has not returned is overtaken.
SetCommit(g) ==
    LET me == goroutines[g]
        r  == BadgerSet(heap[1].rev, disk, me.key, me.item, me.t,
                        heap[1].Config.TTL, "none")
    IN  /\ me.pc = "commit"
        /\ disk' = r.db
        /\ latest' = [latest EXCEPT ![me.key] =
                         [present |-> TRUE,
                          content |-> BadgerItemBytes(heap[1].rev, me.item),
                          ttl |-> me.t + heap[1].Config.TTL]]
        /\ goroutines' =
               [h \in Goroutines |->
                   IF h = g THEN [me EXCEPT !.pc = "idle", !.err = r.err]
                   ELSE IF /\ goroutines[h].op = "Get"
                           /\ goroutines[h].pc # "idle"
                           /\ goroutines[h].key = me.key
                        THEN [goroutines[h] EXCEPT !.overtaken = TRUE]
                        ELSE goroutines[h]]
        /\ OthersUnchanged

NextConc ==
    \/ \E g \in Goroutines, k \in Keys : GetBegin(g, k)
    \/ \E g \in Goroutines : GetFetch(g)
    \/ \E g \in Goroutines : GetJudge(g)
    \/ \E g \in Goroutines : GetReap(g)
    \/ \E g \in Goroutines, k \in Keys, c \in ConcContents : SetBegin(g, k, c)
    \/ \E g \in Goroutines : SetCommit(g)
    \/ Tick

SpecConc == InitEmpty /\ [][NextConc]_vars

\* C19: the reaping delete of a Get that read an entry whose expiry has
\* passed never removes an entry written by a Set that committed after that
\* Get's read and whose own expiry is still ahead, so that Gets before that
\* expiry find it.
C19_ReapNeverRemovesNewerEntry ==
    [][\A g \in Goroutines :
          (/\ goroutines[g].pc = "reap"
           /\ goroutines'[g].pc = "idle"
           /\ goroutines[g].seen.present
           /\ goroutines[g].seen.ttl <= now)
              => ~(/\ goroutines[g].overtaken
                   /\ latest[goroutines[g].key].present
                   /\ latest[goroutines[g].key].ttl > now)]_vars

\* C20: under any interleaving of Sets and Gets of one key, a Get that
\* returns found = true returns the content and was judged against the
\* expiry of one and the same committed Set.
C20_FoundIsOnePair ==
    \A g \in Goroutines :
        (/\ goroutines[g].op = "Get"
         /\ goroutines[g].pc = "idle"
         /\ goroutines[g].found)
            => (/\ goroutines[g].seen.present
                /\ goroutines[g].content = goroutines[g].seen.content
                /\ goroutines[g].TTL = goroutines[g].seen.ttl)

\* A found Get between whose two reads another Set of the key committed.
C20_Witness ==
    \E g \in Goroutines :
        /\ goroutines[g].op = "Get"
        /\ goroutines[g].pc = "idle"
        /\ goroutines[g].found
        /\ goroutines[g].overtaken
        /\ latest[goroutines[g].key].present
        /\ latest[goroutines[g].key].content # goroutines[g].content
        /\ latest[goroutines[g].key].ttl # goroutines[g].TTL

\* C21: on the Badger backend, a Set that fails at the serialization of the
\* ttl, at the staging of either record or at commit returns an error and
\* leaves the store exactly as it was before the call.
C21_FailedSetChangesNothing ==
    [][(/\ now' = now
        /\ last'.op = "Set"
        /\ heap[last'.inst].type = "BadgerCache"
        /\ last'.fault # "none")
          => (last'.err # NoError /\ disk' = disk)]_vars

\* A Set of another content that failed at commit over a stored entry, which
\* keeps its old content.
C21_Witness ==
    /\ last.op = "Set"
    /\ LastIsOn("BadgerCache")
    /\ last.fault = "commit"
    /\ last.err # NoError
    /\ ContentKey(last.key) \in DOMAIN disk
    /\ TTLKey(last.key) \in DOMAIN disk
    /\ disk[ContentKey(last.key)] # BadgerItemBytes(heap[last.inst].rev, last.item)

\* C22: on the Badger backend GetItemTTL never changes the store, and for an
\* entry whose expiry has passed and that is still stored it returns
\* found = true with the duration expiresAt - now, zero or negative.
C22_GetItemTTLIsReadOnly ==
    [][(/\ now' = now
        /\ last'.op = "GetItemTTL"
        /\ heap[last'.inst].type = "BadgerCache")
          => (/\ disk' = disk
              /\ (/\ last'.fault = "none"
                  /\ last'.hadTTL /\ last'.hadContent /\ last'.expired)
                    => (/\ last'.found
                        /\ last'.err = NoError
                        /\ last'.dur = JsonUnmarshalTime(disk[TTLKey(last'.key)]) - now
                        /\ last'.dur <= 0))]_vars

\* A GetItemTTL of an unreaped entry past its expiry: negative duration, both
\* records still stored.
C22_Witness ==
    /\ last.op = "GetItemTTL"
    /\ LastIsOn("BadgerCache")
    /\ last.hadTTL /\ last.hadContent /\ last.expired
    /\ last.found
    /\ last.dur < 0
    /\ ContentKey(last.key) \in DOMAIN disk
    /\ TTLKey(last.key) \in DOMAIN disk

\* The Badger store holds an entry for cacheKey, both records, whose expiry is
\* still ahead of the clock.
Live(cacheKey) ==
    /\ ContentKey(cacheKey) \in DOMAIN disk
    /\ TTLKey(cacheKey) \in DOMAIN disk
    /\ JsonUnmarshalTime(disk[TTLKey(cacheKey)]) > now

\* C23: on the Badger backend, a Get of a key that is absent or whose expiry
\* has passed returns found = false; the first Get of an entry past its
\* expiry whose store accesses succeed leaves the key absent; and a key that
\* is not live becomes live by a Set or ExtendTTL only.
C23_Lifecycle ==
    [][/\ (/\ now' = now
           /\ last'.op = "Get"
           /\ heap[last'.inst].type = "BadgerCache")
             => (/\ (~last'.hadTTL \/ last'.expired) => ~last'.found
                 /\ (/\ last'.fault = "none"
                     /\ last'.hadTTL /\ last'.hadContent /\ last'.expired)
                       => (/\ ContentKey(last'.key) \notin DOMAIN disk'
                           /\ TTLKey(last'.key) \notin DOMAIN disk'))
       /\ \A k \in Keys :
             (~Live(k) /\ Live(k)')
                 => (now' = now /\ last'.op \in {"Set", "ExtendTTL"})]_vars

\* An entry written by ExtendTTL outlived its expiry and the Get after it
\* returned found = false and left the key absent.
C23_Witness ==
    /\ last.op = "Get"
    /\ LastIsOn("BadgerCache")
    /\ last.pre.op = "ExtendTTL"
    /\ last.hadTTL /\ last.hadContent /\ last.expired
    /\ ~last.found
    /\ ContentKey(last.key) \notin DOMAIN disk
    /\ TTLKey(last.key) \notin DOMAIN disk

\* C24: on the Badger backend, a Get that returns found = false because the
\* entry's expiry has passed returns an empty content: the payload of the
\* stale entry is not handed back.
C24_StaleGetReturnsNoContent ==
    (/\ last.op = "Get"
     /\ LastIsOn("BadgerCache")
     /\ last.fault # "read"
     /\ last.hadTTL /\ last.hadContent /\ last.expired
     /\ ~last.found)
        => (Len(last.content) = 0 /\ ~last.boxed)

\* C25: on the Badger backend, a Get of an entry past its expiry whose
\* reaping delete fails returns found = false with a nil error and leaves
\* the store unchanged, and a Get of such an entry whose delete commits
\* removes both records.
C25_FailedReapIsSilent ==
    [][(/\ now' = now
        /\ last'.op = "Get"
        /\ heap[last'.inst].type = "BadgerCache"
        /\ last'.hadTTL /\ last'.hadContent /\ last'.expired)
          => (/\ last'.fault = "delete"
                  => (~last'.found /\ last'.err = NoError /\ disk' = disk)
              /\ last'.fault = "none"
                  => (/\ ~last'.found /\ last'.err = NoError
                      /\ disk' = Del(Del(disk, ContentKey(last'.key)),
                                     TTLKey(last'.key))))]_vars

\* A Get whose reaping delete failed: found = false, nil error, both records
\* of the entry past its expiry still stored.
C25_Witness ==
    /\ last.op = "Get"
    /\ LastIsOn("BadgerCache")
    /\ last.fault = "delete"
    /\ last.hadTTL /\ last.hadContent /\ last.expired
    /\ ~last.found
    /\ last.err = NoError
    /\ ContentKey(last.key) \in DOMAIN disk
    /\ TTLKey(last.key) \in DOMAIN disk

\* ------------------------------------------------------------------ the older dispatcher
\* Any sequence of CacheInit calls of the older dispatcher.
NextPart000 ==
    \E cacheConfig \in CacheConfigs, rev \in BadgerRevs : CacheInitPart000(cacheConfig, rev)

SpecPart000 == Boot /\ [][NextPart000]_vars

\* The backend each recognized Type is documented to yield.
BackendOf(type) ==
    CASE type = "memory" -> "GoCache"
      [] type = "redis"  -> "RedisCache"
      [] OTHER           -> "BadgerCache"

\* C26: every CacheInit call that reaches the switch with a recognized Type
\* constructs exactly one backend, of the kind chosen by the Type ("memory"
\* the in-memory one, "redis" the networked one, "file" and "badger" the
\* embedded-engine one), runs Init on that backend and on no other, and
\* returns it; the returned instance is the process-wide CacheInstance.
C26_DispatchIsExact ==
    [][(/\ now' = now
        /\ last'.op = "CacheInit"
        /\ last'.err = NoError
        /\ last'.type \in RecognizedTypes)
          => (/\ status' = "running"
              /\ Len(heap') = Len(heap) + 1
              /\ SubSeq(heap', 1, Len(heap)) = heap
              /\ heap'[Len(heap')].type = BackendOf(last'.type)
              /\ last'.inst = Len(heap')
              /\ CacheInstance' = Len(heap'))]_vars

\* ------------------------------------------------------------------ resolved configuration
\* The empty configuration: every field at its zero value.
EmptyConfig ==
    [Type |-> "", Expiration |-> "", RedisHost |-> "", RedisDB |-> 0, Path |-> "",
     TTL |-> 0]

\* C27: the configuration a CacheInit call resolves is its argument merged
\* over the documented defaults, whatever CacheInit calls came before; a
\* CacheInit with the empty configuration returns an in-memory backend with a
\* 10-minute TTL.
C27_ConfigDependsOnArgumentOnly ==
    [][(now' = now /\ last'.op = "CacheInit")
          => (/\ \A f \in {"Type", "Expiration", "RedisHost", "RedisDB", "Path"} :
                     DefaultConfig'[f] = Merge(DefaultConfigValue, last'.arg)[f]
              /\ last'.arg = EmptyConfig =>
                     /\ last'.err = NoError
                     /\ last'.inst # 0
                     /\ heap'[last'.inst].type = "GoCache"
                     /\ heap'[last'.inst].Config.TTL = ParseDuration("10m").d)]_vars

\* ------------------------------------------------------------------ several keys
\* Cache keys of which one is a prefix of the others and two end in the
\* suffixes of the physical records.
IsolationKeys == {"a", "a_ttl", "a_content"}

IsolationContents == {<<118>>, <<119, 49>>}

\* The Badger backend of providers/badger.go with a short expiration over an
\* empty directory.
InitKeys ==
    /\ InitEmpty
    /\ heap[1].rev = "badger.go"
    /\ DefaultConfig.Expiration = "500ms"

\* Calls on any of the keys, none of them meeting a storage failure.
NextKeys ==
    \/ \E k \in IsolationKeys : Get(1, k, "none")
    \/ \E k \in IsolationKeys, c \in IsolationContents : Set(1, k, c, "none")
    \/ \E k \in IsolationKeys, c \in IsolationContents : ExtendTTL(1, k, c, "none")
    \/ \E k \in IsolationKeys : GetItemTTL(1, k, "none")
    \/ Tick

SpecKeys == InitKeys /\ [][NextKeys]_vars

\* The physical records of a cache key.
PhysicalKeys(cacheKey) == {ContentKey(cacheKey), TTLKey(cacheKey)}

\* What the store holds for a cache key: its records and their values.
RecordsOf(cacheKey) == {<<pk, disk[pk]>> : pk \in PhysicalKeys(cacheKey) \cap DOMAIN disk}

\* Whether a Get of the cache key now would find it.
FoundNow(cacheKey) == BadgerGet(heap[1].rev, disk, cacheKey, now, "none").found

\* C28: on the Badger backend the physical records of two distinct cache
\* keys are disjoint, also when a key ends in "_ttl" or "_content" or is a
\* prefix of the other; a Set, ExtendTTL, Get (reaping included) or
\* GetItemTTL on one key leaves the content, the expiry and the found-status
\* of every other key as they were.
C28_KeyIsolation ==
    [][(/\ now' = now
        /\ last'.op \in {"Set", "ExtendTTL", "Get", "GetItemTTL"})
          => \A k2 \in IsolationKeys \ {last'.key} :
                 /\ PhysicalKeys(last'.key) \cap PhysicalKeys(k2) = {}
                 /\ RecordsOf(k2)' = RecordsOf(k2)
                 /\ FoundNow(k2)' = FoundNow(k2)]_vars

\* A Get of "a_ttl" reaped its expired entry while "a" and "a_content" hold
\* live entries.
C28_Witness ==
    /\ last.op = "Get"
    /\ last.key = "a_ttl"
    /\ last.fault = "none"
    /\ last.hadTTL /\ last.hadContent /\ last.expired
    /\ ~last.found
    /\ PhysicalKeys("a_ttl") \cap DOMAIN disk = {}
    /\ Live("a")
    /\ Live("a_content")

\* ------------------------------------------------------------------ Get on a live entry
\* C29: a Get that returns found=true changes nothing that is stored: the
\* content and the expiresAt of the key are after the Get what its last Set
\* or ExtendTTL made them (no sliding expiration), on every backend.
C29_GetOfLiveEntryIsReadOnly ==
    [][(now' = now /\ last'.op = "Get" /\ last'.found)
          => (disk' = disk /\ heap' = heap /\ redis' = redis)]_vars

\* A Badger entry found by a Get some time after it was written: what is left
\* of its lifetime is less than the TTL of the backend.
C29_Witness ==
    /\ last.op = "Get"
    /\ last.found
    /\ LastIsOn("BadgerCache")
    /\ TTLKey(last.key) \in DOMAIN disk
    /\ JsonUnmarshalTime(disk[TTLKey(last.key)]) > now
    /\ JsonUnmarshalTime(disk[TTLKey(last.key)]) - now < heap[last.inst].Config.TTL

====
